---- MODULE Spec2Model ----
(***************************************************************************)
(* rmap: a TCP connect scanner.  src/src/args.rs holds the host and port   *)
(* expansion (HostIpRange, expand_port_list); src/src/main.rs holds its    *)
(* own copy of the expansion (returning a Vec) and the scan itself: one    *)
(* tokio task per (host, port), a bounded mpsc channel for the results     *)
(* and a receive loop that counts them.                                    *)
(*                                                                         *)
(* Text is a sequence of one-character strings.  A u32 is a pair           *)
(* <<hi, lo>> of 16-bit halves (value hi * 65536 + lo), so that 32-bit     *)
(* arithmetic, its overflow included, is exact.                            *)
(***************************************************************************)
EXTENDS Integers, Sequences, FiniteSets, TLC

VARIABLES
    build,          \* "debug": arithmetic overflow panics; "release": it wraps
    \* ---- host expansion (args.rs)
    hostCase,       \* the case the host spec was written from (ghost)
    hostSpec,       \* host_spec: the text given to expand_hosts
    hostPc,         \* "start" | "iterating" | "exhausted" | "error" | "panicked"
    hostErr,        \* the NetworkParseError returned, or "none"
    parsed,         \* the (address, prefix length) the spec parsed to
    range,          \* the HostIpRange: [next, last]
    yielded,        \* the addresses next() has returned so far
    \* ---- port expansion (args.rs)
    portCase,       \* the tokens the port spec was written from (ghost)
    portSpec,       \* port_spec: the text given to expand_port_list
    portPc,         \* "start" | "returned" | "panicked" ("error" is never set:
                    \* expand_port_list has no error value to return)
    portVec,        \* the Vec<u16> collected so far
    portErr,        \* the payload of the panic, or "none"
    \* ---- the scan (main.rs)
    mainPc,         \* main's position
    hosts,          \* Vec<Ipv4Addr> of expand_hosts
    ports,          \* Vec<u16> of expand_port_list
    spawned,        \* number of targets the dispatch loop has spawned a task for
    task,           \* per target: the probe task's state
    chan,           \* the mpsc channel's buffer
    txDropped,      \* main's own Sender has been dropped
    rxAlive,        \* the Receiver has not been dropped
    received,       \* per target: outcomes the receive loop has taken (ghost)
    closed_ports,   \* main's counter
    timed_out_ports,\* main's counter
    open_printed    \* number of "open" lines printed

hostVars == <<hostCase, hostSpec, hostPc, hostErr, parsed, range, yielded>>
portVars == <<portCase, portSpec, portPc, portVec, portErr>>
scanVars == <<mainPc, hosts, ports, spawned, task, chan, txDropped, rxAlive,
              received, closed_ports, timed_out_ports, open_printed>>
vars == <<build, hostVars, portVars, scanVars>>

BuildModes == {"debug", "release"}

-----------------------------------------------------------------------------
(* Text *)

Digits == <<"0", "1", "2", "3", "4", "5", "6", "7", "8", "9">>

IsDigit(c) == \E i \in 1..10 : Digits[i] = c

DigitVal(c) == (CHOOSE i \in 1..10 : Digits[i] = c) - 1

\* Display of an unsigned integer: its decimal digits.
RECURSIVE FormatNat(_)
FormatNat(n) ==
    IF n < 10 THEN <<Digits[n + 1]>>
    ELSE FormatNat(n \div 10) \o <<Digits[(n % 10) + 1]>>

\* str::split_once: the text before and after the first occurrence of c.
SplitOnce(s, c) ==
    IF \E i \in 1..Len(s) : s[i] = c
    THEN LET i == CHOOSE k \in 1..Len(s) :
                      s[k] = c /\ \A j \in 1..(k - 1) : s[j] # c
         IN  [found |-> TRUE, left |-> SubSeq(s, 1, i - 1),
              right |-> SubSeq(s, i + 1, Len(s))]
    ELSE [found |-> FALSE, left |-> s, right |-> <<>>]

\* str::split: every piece between occurrences of c (one piece for a text
\* without c, the empty text included).  The text is bound as a value (v)
\* before it is taken apart.
RECURSIVE Split(_, _)
Split(s, c) ==
    CHOOSE pieces \in
        {IF SplitOnce(v, c).found
         THEN <<SplitOnce(v, c).left>> \o Split(SplitOnce(v, c).right, c)
         ELSE <<v>> : v \in {s}} : TRUE

\* The digits of s read as a number that must not exceed max.
RECURSIVE ReadDigits(_, _, _)
ReadDigits(s, acc, max) ==
    IF s = <<>> THEN [ok |-> TRUE, val |-> acc]
    ELSE IF ~IsDigit(Head(s)) THEN [ok |-> FALSE, val |-> 0]
    ELSE LET v == acc * 10 + DigitVal(Head(s))
         IN  IF v > max THEN [ok |-> FALSE, val |-> 0]
             ELSE ReadDigits(Tail(s), v, max)

\* str::parse for an unsigned integer type whose largest value is max: an
\* optional leading '+', then one or more digits; empty text, a lone sign,
\* any other character and a value above max are errors.
ParseUnsigned(s, max) ==
    IF s = <<>> THEN [ok |-> FALSE, val |-> 0]
    ELSE IF Len(s) = 1 /\ Head(s) \in {"+", "-"} THEN [ok |-> FALSE, val |-> 0]
    ELSE IF Head(s) = "+" THEN ReadDigits(Tail(s), 0, max)
    ELSE ReadDigits(s, 0, max)

U16Max == 65535

-----------------------------------------------------------------------------
(* u32 as two 16-bit halves *)

Half == 65536

MaxU32 == <<65535, 65535>>

OneU32 == <<0, 1>>

\* a + b: the wrapped sum and whether it overflowed.
AddU32(a, b) ==
    LET lo == a[2] + b[2]
        hi == a[1] + b[1] + (lo \div Half)
    IN  [val |-> <<hi % Half, lo % Half>>, ovf |-> hi >= Half]

\* a - b: the wrapped difference and whether it overflowed (b > a).
SubU32(a, b) ==
    LET lo == a[2] - b[2]
        borrow == IF lo < 0 THEN 1 ELSE 0
        hi == a[1] - b[1] - borrow
    IN  [val |-> <<(hi + Half) % Half, (lo + Half) % Half>>, ovf |-> hi < 0]

LeU32(a, b) == a[1] < b[1] \/ (a[1] = b[1] /\ a[2] <= b[2])

\* 2 to the k, in a Nat (k <= 16).
RECURSIVE Pow2(_)
Pow2(k) == IF k = 0 THEN 1 ELSE 2 * Pow2(k - 1)

\* 2_u32.pow(k): 2^32 does not fit and wraps to 0.
PowU32(k) ==
    IF k < 16 THEN [val |-> <<0, Pow2(k)>>, ovf |-> FALSE]
    ELSE IF k < 32 THEN [val |-> <<Pow2(k - 16), 0>>, ovf |-> FALSE]
    ELSE [val |-> <<0, 0>>, ovf |-> TRUE]

\* Bitwise and of two numbers below 2^n.
RECURSIVE AndBits(_, _, _)
AndBits(x, y, n) ==
    IF n = 0 THEN 0
    ELSE 2 * AndBits(x \div 2, y \div 2, n - 1) + ((x % 2) * (y % 2))

AndU32(a, b) == <<AndBits(a[1], b[1], 16), AndBits(a[2], b[2], 16)>>

NotU32(a) == <<65535 - a[1], 65535 - a[2]>>

\* Display of an Ipv4Addr: the four octets in decimal, joined by dots.
FormatIpv4(a) ==
    FormatNat(a[1] \div 256) \o <<".">> \o FormatNat(a[1] % 256) \o <<".">>
        \o FormatNat(a[2] \div 256) \o <<".">> \o FormatNat(a[2] % 256)

\* One octet of a dotted quad: one to three digits, no leading zero, <= 255.
ParseOctet(s) ==
    IF Len(s) = 0 \/ Len(s) > 3 THEN [ok |-> FALSE, val |-> 0]
    ELSE IF Len(s) > 1 /\ Head(s) = "0" THEN [ok |-> FALSE, val |-> 0]
    ELSE ReadDigits(s, 0, 255)

\* Ipv4Addr::from_str: exactly four octets separated by dots.
ParseIpv4(s) ==
    LET parts == Split(s, ".")
    IN  IF Len(parts) = 4 /\ \A i \in 1..4 : ParseOctet(parts[i]).ok
        THEN [ok |-> TRUE,
              val |-> <<ParseOctet(parts[1]).val * 256 + ParseOctet(parts[2]).val,
                        ParseOctet(parts[3]).val * 256 + ParseOctet(parts[4]).val>>]
        ELSE [ok |-> FALSE, val |-> <<0, 0>>]

-----------------------------------------------------------------------------
(* Host expansion: args.rs *)

Ip(a, b, c, d) == <<a * 256 + b, c * 256 + d>>

NoRange == [next |-> <<0, 0>>, last |-> <<0, 0>>]

NoParse == [addr |-> <<0, 0>>, mask |-> 0]

\* address_and_netmask_from_str with every parse error mapped to BadIpAddress.
address_and_netmask_from_str_wrongErr(host_spec) ==
    IF host_spec = <<>> THEN [ok |-> FALSE, err |-> "MissingAddress", val |-> NoParse]
    ELSE LET sp == SplitOnce(host_spec, "/")
             ip == IF sp.found THEN sp.left ELSE host_spec
             mask == IF sp.found THEN sp.right ELSE <<"3", "2">>
             a == ParseIpv4(ip)
             m == ParseUnsigned(mask, 32)
         IN  IF ~a.ok \/ ~m.ok
             THEN [ok |-> FALSE, err |-> "BadIpAddress", val |-> NoParse]
             ELSE [ok |-> TRUE, err |-> "none",
                   val |-> [addr |-> a.val, mask |-> m.val]]

\* address_and_netmask_from_str.  The address is parsed first, so its error
\* wins over the prefix length's.  mask.parse::<u32>() and the match on
\* 0..=32 both end in BadNetmask, so they are one read that rejects every
\* value above 32.
address_and_netmask_from_str(host_spec) ==
    IF host_spec = <<>> THEN [ok |-> FALSE, err |-> "MissingAddress", val |-> NoParse]
    ELSE LET sp == SplitOnce(host_spec, "/")
             ip == IF sp.found THEN sp.left ELSE host_spec
             mask == IF sp.found THEN sp.right ELSE <<"3", "2">>
             a == ParseIpv4(ip)
             m == ParseUnsigned(mask, 32)
         IN  IF ~a.ok THEN [ok |-> FALSE, err |-> "BadIpAddress", val |-> NoParse]
             ELSE IF ~m.ok THEN [ok |-> FALSE, err |-> "BadNetmask", val |-> NoParse]
             ELSE [ok |-> TRUE, err |-> "none",
                   val |-> [addr |-> a.val, mask |-> m.val]]

\* expand_hosts_with_netmask of args.rs.  checked: the build panics on
\* arithmetic overflow (otherwise the result wraps).
expand_hosts_with_netmask(addr, mask, checked) ==
    IF mask = 32 THEN [panic |-> FALSE, val |-> [next |-> addr, last |-> addr]]
    ELSE LET pw == PowU32(32 - mask)
             ignore_mask == SubU32(pw.val, OneU32)
             netmask == NotU32(ignore_mask.val)
             first == AndU32(addr, netmask)
             last == AddU32(first, ignore_mask.val)
         IN  IF checked /\ (pw.ovf \/ ignore_mask.ovf \/ last.ovf)
             THEN [panic |-> TRUE, val |-> NoRange]
             ELSE [panic |-> FALSE, val |-> [next |-> first, last |-> last.val]]

\* HostIpRange::next: the item returned (some) and the cursor afterwards.
HostIpRange_next(r, checked) ==
    IF LeU32(r.next, r.last)
    THEN LET inc == AddU32(r.next, OneU32)
             item == SubU32(inc.val, OneU32)
         IN  IF checked /\ (inc.ovf \/ item.ovf)
             THEN [panic |-> TRUE, some |-> FALSE, item |-> <<0, 0>>, self |-> r]
             ELSE [panic |-> FALSE, some |-> TRUE, item |-> item.val,
                   self |-> [r EXCEPT !.next = inc.val]]
    ELSE [panic |-> FALSE, some |-> FALSE, item |-> <<0, 0>>, self |-> r]

\* Calls of next() made on one range.
MaxYield == 10

Bases ==
    {Ip(192, 168, 1, 1), Ip(192, 168, 1, 2), Ip(10, 0, 0, 255),
     Ip(0, 0, 0, 0), Ip(255, 255, 255, 254), Ip(255, 255, 255, 255)}

Prefixes == {0, 8, 24, 29, 30, 31, 32}

BadIpTexts ==
    {<<>>, <<"b", "a", "d">>, <<"1", ".", "2", ".", "3">>,
     <<"1", ".", "2", ".", "3", ".", "4", ".", "5">>,
     <<"2", "5", "6", ".", "1", ".", "1", ".", "1">>,
     <<"1", ".", ".", "2", ".", "3">>}

BadMaskTexts ==
    {<<>>, <<"3", "3">>, <<"x">>, <<"-", "1">>, <<"3", "/", "2">>,
     <<"2", "4", "b">>, <<"2", "5", "6">>}

HostCase(ipText, ipOk, addr, slash, maskText, maskOk, prefix) ==
    [ipText |-> ipText, ipOk |-> ipOk, addr |-> addr, slash |-> slash,
     maskText |-> maskText, maskOk |-> maskOk, prefix |-> prefix]

\* Host specs written from an address and a prefix length.
ValidHostCases ==
    {HostCase(FormatIpv4(b), TRUE, b, TRUE, FormatNat(p), TRUE, p) :
        b \in Bases, p \in Prefixes}
    \cup {HostCase(FormatIpv4(b), TRUE, b, FALSE, <<>>, TRUE, 32) : b \in Bases}
    \cup {HostCase(FormatIpv4(Ip(192, 168, 1, 1)), TRUE, Ip(192, 168, 1, 1),
                   TRUE, <<"+", "3", "1">>, TRUE, 31)}

\* Host specs with a bad address, a bad prefix length, or both.
InvalidHostCases ==
    {HostCase(t, FALSE, <<0, 0>>, TRUE, FormatNat(p), TRUE, p) :
        t \in BadIpTexts, p \in {24}}
    \cup {HostCase(t, FALSE, <<0, 0>>, FALSE, <<>>, TRUE, 32) : t \in BadIpTexts}
    \cup {HostCase(t, FALSE, <<0, 0>>, TRUE, m, FALSE, 0) :
            t \in BadIpTexts, m \in {<<"3", "3">>}}
    \cup {HostCase(FormatIpv4(b), TRUE, b, TRUE, m, FALSE, 0) :
            b \in {Ip(1, 2, 3, 4)}, m \in BadMaskTexts}

HostCases == ValidHostCases \cup InvalidHostCases

HostSpecOf(c) ==
    c.ipText \o (IF c.slash THEN <<"/">> \o c.maskText ELSE <<>>)

PortIdle ==
    /\ portCase = <<>>
    /\ portSpec = <<>>
    /\ portPc = "idle"
    /\ portVec = <<>>
    /\ portErr = "none"

ScanIdle ==
    /\ mainPc = "idle"
    /\ hosts = <<>>
    /\ ports = <<>>
    /\ spawned = 0
    /\ task = <<>>
    /\ chan = <<>>
    /\ txDropped = FALSE
    /\ rxAlive = FALSE
    /\ received = <<>>
    /\ closed_ports = 0
    /\ timed_out_ports = 0
    /\ open_printed = 0

HostIdle ==
    /\ hostCase = HostCase(<<>>, FALSE, <<0, 0>>, FALSE, <<>>, FALSE, 0)
    /\ hostSpec = <<>>
    /\ hostPc = "idle"
    /\ hostErr = "none"
    /\ parsed = NoParse
    /\ range = NoRange
    /\ yielded = <<>>

HostsInit ==
    /\ build \in BuildModes
    /\ hostCase \in HostCases
    /\ hostSpec = HostSpecOf(hostCase)
    /\ hostPc = "start"
    /\ hostErr = "none"
    /\ parsed = NoParse
    /\ range = NoRange
    /\ yielded = <<>>
    /\ PortIdle
    /\ ScanIdle

\* expand_hosts: parse the spec, then build the range.
ExpandHosts ==
    /\ hostPc = "start"
    /\ LET p == address_and_netmask_from_str(hostSpec)
           r == expand_hosts_with_netmask(p.val.addr, p.val.mask, build = "debug")
       IN  IF ~p.ok
           THEN /\ hostPc' = "error"
                /\ hostErr' = p.err
                /\ UNCHANGED <<parsed, range>>
           ELSE /\ parsed' = p.val
                /\ hostErr' = "none"
                /\ IF r.panic
                   THEN hostPc' = "panicked" /\ UNCHANGED range
                   ELSE hostPc' = "iterating" /\ range' = r.val
    /\ UNCHANGED <<build, hostCase, hostSpec, yielded, portVars, scanVars>>

\* One call of next() on the range.
HostNext ==
    /\ hostPc = "iterating"
    /\ Len(yielded) < MaxYield
    /\ LET n == HostIpRange_next(range, build = "debug")
       IN  IF n.panic THEN hostPc' = "panicked" /\ UNCHANGED <<range, yielded>>
           ELSE IF n.some
           THEN /\ range' = n.self
                /\ yielded' = Append(yielded, n.item)
                /\ hostPc' = "iterating"
           ELSE hostPc' = "exhausted" /\ UNCHANGED <<range, yielded>>
    /\ UNCHANGED <<build, hostCase, hostSpec, hostErr, parsed, portVars, scanVars>>

HostsNext == ExpandHosts \/ HostNext

HostsSpec == HostsInit /\ [][HostsNext]_vars

-----------------------------------------------------------------------------
(* Host expansion: properties *)

HostValid == hostCase.ipOk /\ hostCase.maskOk

\* The network address of b's block of prefix length p: b with its low
\* 32 - p bits cleared.
BlockStart(b, p) ==
    LET k == 32 - p
    IN  IF k <= 16 THEN <<b[1], b[2] - (b[2] % Pow2(k))>>
        ELSE <<b[1] - (b[1] % Pow2(k - 16)), 0>>

\* The broadcast address of the block: b with its low 32 - p bits set.
BlockEnd(b, p) ==
    LET k == 32 - p
        s == BlockStart(b, p)
    IN  IF k <= 16 THEN <<s[1], s[2] + Pow2(k) - 1>>
        ELSE <<s[1] + Pow2(k - 16) - 1, 65535>>

\* a + n without wrapping (a half of 65536 marks a value past the u32 range).
Plus(a, n) == <<a[1] + ((a[2] + n) \div Half), (a[2] + n) % Half>>

\* C3: for every base address b and prefix length p, the range of
\* expand_hosts_with_netmask(b, p) iterated to exhaustion yields exactly
\* 2^(32-p) addresses, from b & mask upwards, contiguous and ascending, up to
\* the broadcast address; for p = 32 exactly b.  Never a panic, never an
\* address outside this sequence.
C3_RangeIsTheBlock ==
    (HostValid /\ hostPc # "start") =>
        LET b == hostCase.addr
            p == hostCase.prefix
        IN  /\ hostPc # "panicked"
            /\ \A i \in 1..Len(yielded) : yielded[i] = Plus(BlockStart(b, p), i - 1)
            /\ (32 - p < 16) => Len(yielded) <= Pow2(32 - p)
            /\ hostPc = "exhausted" =>
                   /\ 32 - p < 16
                   /\ Len(yielded) = Pow2(32 - p)
                   /\ yielded[Len(yielded)] = BlockEnd(b, p)
            /\ (p = 32) => \A i \in 1..Len(yielded) : yielded[i] = b

\* C5: for a block whose last address is 255.255.255.255 (prefix length 0
\* included) building the range and advancing it never overflow, and the
\* iterator never wraps around: after 255.255.255.255 nothing is yielded.
C5_NoOverflowAtTop ==
    (HostValid /\ hostPc # "start"
        /\ BlockEnd(hostCase.addr, hostCase.prefix) = MaxU32) =>
        /\ hostPc # "panicked"
        /\ \A i \in 1..Len(yielded) : yielded[i] = MaxU32 => i = Len(yielded)

\* C8: expand_hosts returns an error and no addresses for an invalid host
\* spec: MissingAddress for the empty spec, BadIpAddress when the text before
\* the first '/' is no dotted quad, BadNetmask when (the address being good)
\* the text after it is no integer in 0..=32; a valid spec without '/' parses
\* to its address with prefix length 32.
C8_HostSpecErrors ==
    (hostPc \notin {"start", "idle"}) =>
        /\ (hostSpec = <<>>) => (hostPc = "error" /\ hostErr = "MissingAddress")
        /\ (hostSpec # <<>> /\ ~hostCase.ipOk) =>
               (hostPc = "error" /\ hostErr = "BadIpAddress")
        /\ (hostCase.ipOk /\ hostCase.slash /\ ~hostCase.maskOk) =>
               (hostPc = "error" /\ hostErr = "BadNetmask")
        /\ (hostPc = "error") => (range = NoRange /\ yielded = <<>> /\ ~HostValid)
        /\ (hostCase.ipOk /\ ~hostCase.slash) =>
               (hostPc # "error" /\ parsed = [addr |-> hostCase.addr, mask |-> 32])

C8_Witness ==
    /\ hostPc = "error"
    /\ hostErr = "BadNetmask"
    /\ hostCase.ipOk
    /\ hostCase.maskText = <<"3", "3">>

-----------------------------------------------------------------------------
(* Port expansion: args.rs *)

\* The RangeInclusive from..=to as the sequence it iterates to.
RangeSeq(from, to) ==
    IF from > to THEN <<>> ELSE [i \in 1..(to - from + 1) |-> from + i - 1]

\* expand_port_range with the upper end left out of the range.
expand_port_range_exclusive(x) ==
    LET sp == SplitOnce(x, "-")
        one == ParseUnsigned(x, U16Max)
        from == ParseUnsigned(sp.left, U16Max)
        to == ParseUnsigned(sp.right, U16Max)
    IN  IF ~sp.found
        THEN [ok |-> one.ok, from |-> one.val, to |-> one.val]
        ELSE IF sp.left = <<>> /\ sp.right = <<>>
        THEN [ok |-> TRUE, from |-> 1, to |-> 65534]
        ELSE [ok |-> from.ok /\ to.ok, from |-> from.val, to |-> to.val - 1]

\* expand_port_range: "n", "-" or "a-b"; InvalidPortNumber otherwise.
expand_port_range(x) ==
    LET sp == SplitOnce(x, "-")
        one == ParseUnsigned(x, U16Max)
        from == ParseUnsigned(sp.left, U16Max)
        to == ParseUnsigned(sp.right, U16Max)
    IN  IF ~sp.found
        THEN [ok |-> one.ok, from |-> one.val, to |-> one.val]
        ELSE IF sp.left = <<>> /\ sp.right = <<>>
        THEN [ok |-> TRUE, from |-> 1, to |-> 65535]
        ELSE [ok |-> from.ok /\ to.ok, from |-> from.val, to |-> to.val]

\* The flat_map over the tokens, collected: the unwrap panics at the first
\* token that does not parse, and the Vec built so far is lost.
RECURSIVE CollectPorts(_)
CollectPorts(toks) ==
    IF toks = <<>> THEN [panic |-> FALSE, err |-> "none", val |-> <<>>]
    ELSE LET r == expand_port_range(Head(toks))
             rest == CollectPorts(Tail(toks))
         IN  IF ~r.ok
             THEN [panic |-> TRUE, err |-> "InvalidPortNumber", val |-> <<>>]
             ELSE IF rest.panic THEN rest
             ELSE [panic |-> FALSE, err |-> "none",
                   val |-> RangeSeq(r.from, r.to) \o rest.val]

\* The tokens that parse, collected; the others skipped.
RECURSIVE CollectPortsSkipping(_)
CollectPortsSkipping(toks) ==
    IF toks = <<>> THEN [panic |-> FALSE, err |-> "none", val |-> <<>>]
    ELSE LET r == expand_port_range(Head(toks))
             rest == CollectPortsSkipping(Tail(toks))
         IN  IF ~r.ok THEN rest
             ELSE [panic |-> FALSE, err |-> "none",
                   val |-> RangeSeq(r.from, r.to) \o rest.val]

\* expand_port_list with filter_map in place of flat_map and unwrap.
expand_port_list_skipping(port_spec) == CollectPortsSkipping(Split(port_spec, ","))

\* expand_port_list.
expand_port_list(port_spec) == CollectPorts(Split(port_spec, ","))

\* Tokens of one port spec.
MaxTokens == 2

Single(n) == [kind |-> "single", a |-> n, b |-> n, text |-> FormatNat(n)]

FromTo(a, b) ==
    [kind |-> "range", a |-> a, b |-> b,
     text |-> FormatNat(a) \o <<"-">> \o FormatNat(b)]

FullRange == [kind |-> "full", a |-> 1, b |-> 65535, text |-> <<"-">>]

Malformed(t) == [kind |-> "bad", a |-> 0, b |-> 0, text |-> t]

GoodTokens ==
    {Single(0), Single(22), Single(65535),
     FromTo(5, 9), FromTo(9, 5), FromTo(5, 5), FromTo(0, 1),
     FromTo(65534, 65535), FullRange}

BadTokens ==
    {Malformed(<<"5", ".", ".", "9">>), Malformed(<<>>),
     Malformed(<<"5", "-">>), Malformed(<<"-", "5">>),
     Malformed(<<"1", "-", "2", "-", "3">>),
     Malformed(<<"6", "5", "5", "3", "6">>), Malformed(<<"x">>)}

PortCases ==
    UNION {[1..n -> GoodTokens \cup BadTokens] : n \in 1..MaxTokens}

\* The port spec: the tokens' texts joined by commas.
RECURSIVE PortSpecOf(_)
PortSpecOf(c) ==
    IF Len(c) = 1 THEN c[1].text
    ELSE c[1].text \o <<",">> \o PortSpecOf(Tail(c))

PortsInit ==
    /\ build \in BuildModes
    /\ portCase \in PortCases
    /\ portSpec = PortSpecOf(portCase)
    /\ portPc = "start"
    /\ portVec = <<>>
    /\ portErr = "none"
    /\ HostIdle
    /\ ScanIdle

\* expand_port_list: returns the Vec, or panics.
ExpandPortList ==
    /\ portPc = "start"
    /\ LET r == expand_port_list(portSpec)
       IN  /\ portPc' = IF r.panic THEN "panicked" ELSE "returned"
           /\ portErr' = r.err
           /\ portVec' = r.val
    /\ UNCHANGED <<build, portCase, portSpec, hostVars, scanVars>>

PortsNext == ExpandPortList

PortsSpec == PortsInit /\ [][PortsNext]_vars

-----------------------------------------------------------------------------
(* Port expansion: properties *)

AllWellFormed == \A i \in 1..Len(portCase) : portCase[i].kind # "bad"

\* What the claim says one token expands to.
TokenPorts(t) ==
    IF t.kind = "single" THEN <<t.a>>
    ELSE IF t.kind = "full" THEN [i \in 1..65535 |-> i]
    ELSE IF t.a > t.b THEN <<>>
    ELSE [i \in 1..(t.b - t.a + 1) |-> t.a + i - 1]

RECURSIVE ConcatPorts(_)
ConcatPorts(c) ==
    IF c = <<>> THEN <<>> ELSE TokenPorts(Head(c)) \o ConcatPorts(Tail(c))

\* C6 as claimed: a malformed token makes expand_port_list return the error
\* value InvalidPortNumber to its caller.
C6_ReturnsErrorValue ==
    (portPc \in {"returned", "panicked", "error"} /\ ~AllWellFormed) =>
        (portPc = "error" /\ portErr = "InvalidPortNumber")

\* C6 as amended: a malformed token makes expand_port_list panic with
\* InvalidPortNumber (the unwrap of the token's Err); no port list is
\* returned, so the bad token is never dropped with the others kept.
C6_PanicsOnMalformedToken ==
    (portPc \in {"returned", "panicked", "error"} /\ ~AllWellFormed) =>
        (portPc = "panicked" /\ portErr = "InvalidPortNumber" /\ portVec = <<>>)

C6_Witness ==
    /\ portPc = "panicked"
    /\ Len(portCase) = 2
    /\ portCase[1].kind = "range"
    /\ portCase[2].text = <<"5", ".", ".", "9">>

\* C7: for well-formed tokens expand_port_list returns the tokens' expansions
\* concatenated in token order, duplicates kept, unsorted: "n" is [n], "a-b"
\* is a..=b (empty when a > b), "-" is 1..=65535.
C7_ConcatenationInTokenOrder ==
    (portPc \in {"returned", "panicked", "error"} /\ AllWellFormed) =>
        (portPc = "returned" /\ portVec = ConcatPorts(portCase))

C7_Witness ==
    /\ portPc = "returned"
    /\ Len(portCase) = 2
    /\ portCase[1] = FromTo(5, 9)
    /\ portCase[2] = Single(22)
    /\ portVec = <<5, 6, 7, 8, 9, 22>>

-----------------------------------------------------------------------------
(* The scan: main.rs *)

\* Capacity of the result channel.  main.rs creates it with 50; the model
\* takes a capacity small enough for the probes to fill it.
ChannelCapacity == 2

\* args.timeout_ms, in clock ticks.
TimeoutTicks == 1

\* expand_hosts_with_netmask of main.rs: the addresses as a Vec, for the
\* blocks whose size fits the model's integers.
main_expand_hosts_with_netmask(addr, mask, checked) ==
    IF mask = 32 THEN [panic |-> FALSE, val |-> <<addr>>]
    ELSE LET pw == PowU32(32 - mask)
             ignore_mask == SubU32(pw.val, OneU32)
             netmask == NotU32(ignore_mask.val)
             n == ignore_mask.val[1] * Half + ignore_mask.val[2]
             sums == [i \in 1..n |->
                         AddU32(AndU32(addr, netmask), <<i \div Half, i % Half>>)]
         IN  IF checked /\ (pw.ovf \/ ignore_mask.ovf \/ \E i \in 1..n : sums[i].ovf)
             THEN [panic |-> TRUE, val |-> <<>>]
             ELSE [panic |-> FALSE, val |-> [i \in 1..n |-> sums[i].val]]

\* expand_hosts of main.rs: parse (p, bound as a value), then expand.
main_expand_hosts(host_spec, checked) ==
    CHOOSE res \in
        {IF ~p.ok THEN [ok |-> FALSE, err |-> p.err, panic |-> FALSE, val |-> <<>>]
         ELSE [ok |-> TRUE, err |-> "none",
               panic |-> main_expand_hosts_with_netmask(
                             p.val.addr, p.val.mask, checked).panic,
               val |-> main_expand_hosts_with_netmask(
                           p.val.addr, p.val.mask, checked).val] :
            p \in {address_and_netmask_from_str(host_spec)}} : TRUE

\* format!("{}:{}", host, port)
Address(host, port) == FormatIpv4(host) \o <<":">> \o FormatNat(port)

NumTargets == Len(hosts) * Len(ports)

\* The target the dispatch loops reach k-th: host-major, ports in list order.
TargetHost(k) == hosts[((k - 1) \div Len(ports)) + 1]

TargetPort(k) == ports[((k - 1) % Len(ports)) + 1]

Tasks == 1..Len(task)

\* A Sender is alive, always: main's own Sender is never dropped.
SendersAlive_txKept == TRUE

\* A Sender is alive: main's own, or the clone of a task that has not ended.
SendersAlive ==
    ~txDropped \/ \E k \in Tasks : task[k].st \notin {"done", "panicked"}

\* rx.recv() returns None as soon as the buffer is empty.
RecvNone_onEmpty == chan = <<>>

\* rx.recv() returns None: the buffer is empty and every Sender is dropped.
RecvNone == chan = <<>> /\ ~SendersAlive

\* The sleep of a probe that has waited w ticks is over (always).
TimerExpired_atOnce(w) == TRUE

\* tokio::time::sleep(timeout) of a probe that has waited w ticks is over.
TimerExpired(w) == w >= TimeoutTicks

\* Probes started whose outcome is not yet determined.
InFlight == Cardinality({k \in Tasks : task[k].st = "connecting"})

ScanInputs ==
    {<<HostCase(FormatIpv4(b), TRUE, b, FALSE, <<>>, TRUE, 32), <<t>>>> :
        b \in {Ip(192, 168, 1, 1)},
        t \in {Single(22), FromTo(5, 6), FromTo(9, 5), FromTo(20, 23),
               Malformed(<<"5", ".", ".", "9">>)}}
    \cup {<<HostCase(FormatIpv4(b), TRUE, b, FALSE, <<>>, TRUE, 32), <<t, t>>>> :
        b \in {Ip(192, 168, 1, 1)}, t \in {Single(22)}}
    \cup {<<HostCase(FormatIpv4(b), TRUE, b, TRUE, FormatNat(p), TRUE, p), <<t>>>> :
        b \in {Ip(192, 168, 1, 2)}, p \in {30, 31}, t \in {Single(80)}}
    \cup {<<HostCase(<<"b", "a", "d">>, FALSE, <<0, 0>>, TRUE, FormatNat(24), TRUE, 24),
            <<Single(80)>>>>}

Init ==
    /\ build \in BuildModes
    /\ \E in \in ScanInputs :
          /\ hostCase = in[1]
          /\ portCase = in[2]
    /\ hostSpec = HostSpecOf(hostCase)
    /\ portSpec = PortSpecOf(portCase)
    /\ hostPc = "idle"
    /\ hostErr = "none"
    /\ parsed = NoParse
    /\ range = NoRange
    /\ yielded = <<>>
    /\ portPc = "idle"
    /\ portVec = <<>>
    /\ portErr = "none"
    /\ mainPc = "start"
    /\ hosts = <<>>
    /\ ports = <<>>
    /\ spawned = 0
    /\ task = <<>>
    /\ chan = <<>>
    /\ txDropped = FALSE
    /\ rxAlive = FALSE
    /\ received = <<>>
    /\ closed_ports = 0
    /\ timed_out_ports = 0
    /\ open_printed = 0

argVars == <<build, hostVars, portVars>>

\* main, lines 179-186: expand the arguments (a bad one panics) and create
\* the channel.
MainExpandArgs ==
    /\ mainPc = "start"
    /\ LET h == main_expand_hosts(hostSpec, build = "debug")
           p == expand_port_list(portSpec)
           bad == ~h.ok \/ h.panic \/ p.panic
       IN  /\ mainPc' = IF bad THEN "panicked" ELSE "dispatch"
           /\ hosts' = IF bad THEN <<>> ELSE h.val
           /\ ports' = IF bad THEN <<>> ELSE p.val
           /\ rxAlive' = ~bad
           /\ received' = IF bad THEN <<>>
                          ELSE [k \in 1..(Len(h.val) * Len(p.val)) |-> 0]
    /\ UNCHANGED <<argVars, spawned, task, chan, txDropped, closed_ports,
                   timed_out_ports, open_printed>>

\* main, lines 188-204: one pass of the inner loop: clone the Sender and
\* spawn the probe task of the next target.
MainSpawn ==
    /\ mainPc = "dispatch"
    /\ spawned < NumTargets
    /\ spawned' = spawned + 1
    /\ task' = Append(task, [st |-> "spawned", host |-> TargetHost(spawned + 1),
                             port |-> TargetPort(spawned + 1),
                             port_state |-> "none", waited |-> 0])
    /\ UNCHANGED <<argVars, mainPc, hosts, ports, chan, txDropped, rxAlive,
                   received, closed_ports, timed_out_ports, open_printed>>

\* main, line 206: drop(tx), once the loops are over.
MainDropTx ==
    /\ mainPc = "dispatch"
    /\ spawned = NumTargets
    /\ mainPc' = "recv"
    /\ txDropped' = TRUE
    /\ UNCHANGED <<argVars, hosts, ports, spawned, task, chan, rxAlive,
                   received, closed_ports, timed_out_ports, open_printed>>

\* main, lines 210-216: rx.recv() returns a message; count it.
MainRecv ==
    /\ mainPc = "recv"
    /\ chan # <<>>
    /\ LET m == Head(chan)
       IN  /\ received' = [received EXCEPT ![m.id] = @ + 1]
           /\ open_printed' = open_printed + (IF m.port_state = "Open" THEN 1 ELSE 0)
           /\ closed_ports' = closed_ports + (IF m.port_state = "Closed" THEN 1 ELSE 0)
           /\ timed_out_ports' =
                  timed_out_ports + (IF m.port_state = "Timeout" THEN 1 ELSE 0)
    /\ chan' = Tail(chan)
    /\ UNCHANGED <<argVars, mainPc, hosts, ports, spawned, task, txDropped, rxAlive>>

\* main, line 210: rx.recv() returns None; the loop ends.
MainRecvNone ==
    /\ mainPc = "recv"
    /\ RecvNone
    /\ mainPc' = "report"
    /\ UNCHANGED <<argVars, hosts, ports, spawned, task, chan, txDropped, rxAlive,
                   received, closed_ports, timed_out_ports, open_printed>>

\* main, lines 218-220: print the counters and return; rx is dropped.
MainReturn ==
    /\ mainPc = "report"
    /\ mainPc' = "done"
    /\ rxAlive' = FALSE
    /\ UNCHANGED <<argVars, hosts, ports, spawned, task, chan, txDropped,
                   received, closed_ports, timed_out_ports, open_printed>>

taskOnly == <<argVars, mainPc, hosts, ports, spawned, chan, txDropped, rxAlive,
              received, closed_ports, timed_out_ports, open_printed>>

\* The task is polled for the first time: it formats the address and starts
\* the connect and the sleep (lines 192-198).
ProbeStart(k) ==
    /\ task[k].st = "spawned"
    /\ task' = [task EXCEPT ![k].st = "connecting"]
    /\ UNCHANGED taskOnly

\* select!: the connect completes, Ok or Err.
ProbeConnected(k) ==
    /\ task[k].st = "connecting"
    /\ \E res \in {"Open", "Closed"} :
          task' = [task EXCEPT ![k].st = "sending", ![k].port_state = res]
    /\ UNCHANGED taskOnly

\* select!: the sleep completes.
ProbeTimedOut(k) ==
    /\ task[k].st = "connecting"
    /\ TimerExpired(task[k].waited)
    /\ task' = [task EXCEPT ![k].st = "sending", ![k].port_state = "Timeout"]
    /\ UNCHANGED taskOnly

\* cloned_tx.send(..).await.unwrap() (line 201): waits while the buffer is
\* full; an Err (the Receiver is gone) panics the task.  The task ends and
\* its Sender clone is dropped.
ProbeSend(k) ==
    /\ task[k].st = "sending"
    /\ IF ~rxAlive
       THEN /\ task' = [task EXCEPT ![k].st = "panicked", ![k].port_state = "none",
                                    ![k].waited = 0]
            /\ UNCHANGED chan
       ELSE /\ Len(chan) < ChannelCapacity
            /\ chan' = Append(chan, [id |-> k,
                                     sa |-> Address(task[k].host, task[k].port),
                                     port_state |-> task[k].port_state])
            /\ task' = [task EXCEPT ![k].st = "done", ![k].port_state = "none",
                                    ![k].waited = 0]
    /\ UNCHANGED <<argVars, mainPc, hosts, ports, spawned, txDropped, rxAlive,
                   received, closed_ports, timed_out_ports, open_printed>>

\* One tick of the clock: no sleep is left behind by it, each fires at its
\* deadline or the probe has ended before.
Tick ==
    /\ \E k \in Tasks : task[k].st = "connecting"
    /\ \A k \in Tasks : task[k].st = "connecting" => ~TimerExpired(task[k].waited)
    /\ task' = [k \in Tasks |->
                   IF task[k].st = "connecting"
                   THEN [task[k] EXCEPT !.waited = @ + 1] ELSE task[k]]
    /\ UNCHANGED taskOnly

Next ==
    \/ MainExpandArgs
    \/ MainSpawn
    \/ MainDropTx
    \/ MainRecv
    \/ MainRecvNone
    \/ MainReturn
    \/ \E k \in Tasks : ProbeStart(k)
    \/ \E k \in Tasks : ProbeConnected(k)
    \/ \E k \in Tasks : ProbeTimedOut(k)
    \/ \E k \in Tasks : ProbeSend(k)
    \/ Tick

Spec == Init /\ [][Next]_vars

\* The runtime keeps running whatever can run.
LiveSpec == Spec /\ WF_vars(Next)

-----------------------------------------------------------------------------
(* The scan: properties *)

LoopEnded == mainPc \in {"report", "done"}

\* C1: at every instant the number of probes in flight is at most the
\* concurrency limit, however many targets there are.  main.rs has no limit
\* of its own; the only bound it sets is the channel's capacity, taken here
\* as the limit.
C1_InFlightBounded == InFlight <= ChannelCapacity

\* C2: when the receive loop ends, every dispatched target has delivered
\* exactly one outcome: none lost, none twice, no probe outstanding, and the
\* outcomes counted are |hosts| x |ports|, duplicate ports included.
C2_OneOutcomePerTarget ==
    LoopEnded =>
        /\ Len(task) = NumTargets
        /\ NumTargets = Len(hosts) * Len(ConcatPorts(portCase))
        /\ \A k \in Tasks : task[k].st = "done" /\ received[k] = 1
        /\ chan = <<>>
        /\ open_printed + closed_ports + timed_out_ports = NumTargets

C2_Witness ==
    /\ mainPc = "report"
    /\ NumTargets = 4
    /\ open_printed = 1
    /\ closed_ports = 1
    /\ timed_out_ports = 2

\* The addresses of b's block of prefix length p, network address first.
BlockSeq(b, p) == [i \in 1..Pow2(32 - p) |-> Plus(BlockStart(b, p), i - 1)]

\* hosts x ports, host-major.
CrossProduct(hs, ps) ==
    [k \in 1..(Len(hs) * Len(ps)) |->
        <<hs[((k - 1) \div Len(ps)) + 1], ps[((k - 1) % Len(ps)) + 1]>>]

\* C4: for a valid host spec with prefix length p < 32 main dispatches a probe
\* for every address of the block, network and broadcast address included,
\* paired with every port of the list.
C4_FullBlockDispatched ==
    (mainPc \in {"recv", "report", "done"} /\ HostValid /\ hostCase.prefix < 32) =>
        [k \in Tasks |-> <<task[k].host, task[k].port>>]
            = CrossProduct(BlockSeq(hostCase.addr, hostCase.prefix),
                           ConcatPorts(portCase))

\* C9: a probe classifies its target once: Open or Closed when the connect
\* ends no later than the probe's own timeout, Timeout only when its full
\* timeout has elapsed; it never waits longer than its timeout; the outcome,
\* once set, is the one it sends; and the step that times one probe out
\* changes no other probe.
C9_ProbeClassification ==
    [][\A k \in Tasks :
          /\ task'[k].st = "connecting" => task'[k].waited <= TimeoutTicks
          /\ (task[k].st = "connecting" /\ task'[k].st # "connecting") =>
                /\ task'[k].st = "sending"
                /\ task'[k].port_state \in {"Open", "Closed", "Timeout"}
                /\ task'[k].port_state = "Timeout" => task[k].waited >= TimeoutTicks
                /\ task'[k].port_state # "Timeout" => task[k].waited <= TimeoutTicks
                /\ \A j \in Tasks \ {k} : task'[j] = task[j]
          /\ (task[k].st = "sending" /\ task'[k] # task[k]) =>
                /\ task'[k].st = "done"
                /\ chan' = Append(chan, [id |-> k,
                                         sa |-> Address(task[k].host, task[k].port),
                                         port_state |-> task[k].port_state])
          /\ task[k].st = "done" => task'[k] = task[k]
      ]_vars

C9_Witness ==
    \E k \in Tasks, j \in Tasks :
        /\ task[k].st = "sending"
        /\ task[k].port_state = "Timeout"
        /\ task[k].waited = TimeoutTicks
        /\ task[j].st = "connecting"
        /\ task[j].waited < TimeoutTicks

\* C10: under fair scheduling the scan terminates, also with more targets
\* than the channel holds: every task gets to send, no send fails (no task
\* panics on a closed channel), and the receive loop ends once the last task
\* has sent and every Sender is dropped.
C10_ScanTerminates ==
    /\ [](\A k \in Tasks : task[k].st # "panicked")
    /\ <>(mainPc \in {"done", "panicked"} /\ \A k \in Tasks : task[k].st = "done")

C10_Witness ==
    /\ NumTargets > ChannelCapacity
    /\ Len(chan) = ChannelCapacity
    /\ \E k \in Tasks : task[k].st = "sending"
    /\ mainPc = "recv"

====
